---------------------------- MODULE Spec2Model ----------------------------
(***************************************************************************)
(* Model of the lrucache package: an item store (go-memdb table "cache"),  *)
(* an expiration heap (container/heap over expirationHeap), the LRU        *)
(* operations Set, Get, Delete, Clear, Len and the background sweep        *)
(* removeExpiredItems, guarded by one sync.RWMutex.                        *)
(***************************************************************************)
EXTENDS Integers, Sequences, FiniteSets, TLC

\* ------------------------------------------------------------------ bounds
MaxSize == 3        \* largest capacity passed to NewLRUWithTTL
MaxTTL == 2         \* largest ttl passed to Set (in clock ticks)
MaxNow == 3         \* the clock stops advancing here

NumKeys == 3        \* number of distinct keys the callers use
NumProcs == 2       \* number of concurrent callers
MaxRounds == 2      \* rounds of concurrent calls

Keys == 1..NumKeys
Procs == 1..NumProcs
NoProc == 0
NoKey == 0
TTLs == 0..MaxTTL
ZeroTime == 0       \* time.Time{}: what a map lookup of a missing key yields

\* ------------------------------------------------------------------ values
\* A Go value is modelled by its dynamic type t and its printed form s.
NilValue == [t |-> "nil", s |-> ""]
NoItem == [Value |-> "", ExpiresAt |-> ZeroTime]
Values ==
  { [t |-> "string", s |-> "value1"],
    [t |-> "string", s |-> "42"],
    [t |-> "int", s |-> "42"],
    [t |-> "chan", s |-> ""] }

\* serde.go serialize: string and []byte are taken as they are, the numeric
\* and bool types are printed with fmt.Sprintf, anything else goes through
\* json.Marshal, which fails on a channel.
serialize(value) ==
  CASE value.t = "string" -> [err |-> "", data |-> value.s]
    [] value.t = "int" -> [err |-> "", data |-> value.s]
    [] value.t = "bool" -> [err |-> "", data |-> value.s]
    [] OTHER -> [err |-> "failed to serialize value", data |-> ""]

\* strconv.Atoi / ParseFloat / ParseBool / json.Unmarshal over the byte
\* strings of the model.
AtoiOk(data) == data \in {"42"}
ParseFloatOk(data) == data \in {"42"}
ParseBoolOk(data) == data \in {"true", "false", "1", "0", "t", "f", "T", "F", "TRUE", "FALSE", "True", "False"}
JsonOk(data) == data \in {"42", "true", "false", "null"}

\* serde.go deserialize: int, then float, then bool, then JSON, else string.
deserialize(data) ==
  IF AtoiOk(data) THEN [t |-> "int", s |-> data]
  ELSE IF ParseFloatOk(data) THEN [t |-> "float64", s |-> data]
  ELSE IF ParseBoolOk(data) THEN [t |-> "bool", s |-> data]
  ELSE IF JsonOk(data) THEN [t |-> "json", s |-> data]
  ELSE [t |-> "string", s |-> data]

\* ------------------------------------------------------------------- state
VARIABLES
  db,         \* table "cache": key -> [Value, ExpiresAt], DOMAIN = stored keys
  items,      \* expHeap.items: the heap array of keys
  expiresAt,  \* expHeap.expiresAt: map key -> time
  size,       \* LRU.size
  now,        \* time.Now()
  last,       \* the call that completed last (sequential callers)
  run,        \* the Sets made since construction or the last Clear
  lock,       \* LRU.lock: the writer holding it and the readers holding it
  pc,         \* where each concurrent caller is
  cur,        \* the call each concurrent caller is in
  hist,       \* the calls each concurrent caller has completed in this round
  crashed,    \* the runtime has stopped the program (concurrent map writes)
  epoch       \* the round of concurrent calls and the cache it started from

cache == <<db, items, expiresAt>>
seqvars == <<last, run>>
concvars == <<lock, pc, cur, hist, crashed, epoch>>
vars == <<db, items, expiresAt, size, now, last, run, lock, pc, cur, hist, crashed, epoch>>

\* ---------------------------------------------------------- expirationHeap
\* h.expiresAt[k]: the zero time when k is not in the map.
At(ea, k) == IF k \in DOMAIN ea THEN ea[k] ELSE ZeroTime

\* expirationHeap.Less (indices are 1-based here).
Less(it, ea, i, j) == At(ea, it[i]) < At(ea, it[j])

\* expirationHeap.Swap
Swap(it, i, j) == [it EXCEPT ![i] = it[j], ![j] = it[i]]

\* container/heap up(h, j)
RECURSIVE up(_, _, _)
up(it, ea, j) ==
  IF j <= 1 THEN it
  ELSE LET i == j \div 2 IN
       IF ~Less(it, ea, j, i) THEN it ELSE up(Swap(it, i, j), ea, i)

\* container/heap down(h, i, n): n is the number of leading elements in play
RECURSIVE down(_, _, _, _)
down(it, ea, i, n) ==
  LET j1 == 2 * i
      j2 == j1 + 1
  IN IF j1 > n THEN it
     ELSE LET j == IF j2 <= n /\ Less(it, ea, j2, j1) THEN j2 ELSE j1 IN
          IF ~Less(it, ea, j, i) THEN it ELSE down(Swap(it, i, j), ea, j, n)

\* heap.Push(h, x): expirationHeap.Push appends, then up
heapPush(it, ea, x) == up(Append(it, x), ea, Len(it) + 1)

\* a Pop that forgets heap.Pop's swap and sift-down: the last element goes
heapPopLast(it, ea) == [key |-> it[Len(it)], items |-> SubSeq(it, 1, Len(it) - 1)]

\* heap.Pop(h): swap root and last, down over the rest, expirationHeap.Pop
heapPop(it, ea) ==
  LET n == Len(it)
      d == down(Swap(it, 1, n), ea, 1, n - 1)
  IN [key |-> d[n], items |-> SubSeq(d, 1, n - 1)]

\* ------------------------------------------------------------ cache engine
\* A cache state c is [db, items, expiresAt, hooks]; hooks lists the
\* EvictCallback invocations of the running call.
Drop(f, k) == [x \in DOMAIN f \ {k} |-> f[x]]
Put(f, k, v) == [x \in DOMAIN f \cup {k} |-> IF x = k THEN v ELSE f[x]]

Cache == [db |-> db, items |-> items, expiresAt |-> expiresAt, hooks |-> <<>>]

\* a removeItem that does not return when txn.Delete fails: the callback is
\* invoked for a key that was not stored
removeItemNoReturn(c, key) ==
  [c EXCEPT !.db = Drop(c.db, key),
            !.expiresAt = Drop(c.expiresAt, key),
            !.hooks = Append(c.hooks, [key |-> key, value |-> NilValue])]

\* LRU.removeItem: txn.Delete fails on an absent key and the function returns
\* after logging; otherwise the map entry goes and the callback gets (key, nil).
removeItem(c, key) ==
  IF key \notin DOMAIN c.db THEN c
  ELSE [c EXCEPT !.db = Drop(c.db, key),
                 !.expiresAt = Drop(c.expiresAt, key),
                 !.hooks = Append(c.hooks, [key |-> key, value |-> NilValue])]

\* an eviction loop that starts one entry late: Len() > size + 1
RECURSIVE evictOverLate(_, _)
evictOverLate(c, sz) ==
  IF Len(c.items) <= sz + 1 THEN c
  ELSE LET p == heapPop(c.items, c.expiresAt) IN
       evictOverLate(removeItem([c EXCEPT !.items = p.items], p.key), sz)

\* the eviction loop of LRU.Set
RECURSIVE evictOver(_, _)
evictOver(c, sz) ==
  IF Len(c.items) <= sz THEN c
  ELSE LET p == heapPop(c.items, c.expiresAt) IN
       evictOver(removeItem([c EXCEPT !.items = p.items], p.key), sz)

\* a sweep loop that takes the root for expired at its very expiry: !After(now)
\* instead of Before(now)
RECURSIVE sweepLoopInclusive(_, _)
sweepLoopInclusive(c, t) ==
  IF ~(Len(c.items) > 0 /\ At(c.expiresAt, c.items[1]) <= t) THEN c
  ELSE LET p == heapPop(c.items, c.expiresAt) IN
       sweepLoopInclusive(removeItem([c EXCEPT !.items = p.items], p.key), t)

\* the loop of LRU.removeExpiredItems
RECURSIVE sweepLoop(_, _)
sweepLoop(c, t) ==
  IF ~(Len(c.items) > 0 /\ At(c.expiresAt, c.items[1]) < t) THEN c
  ELSE LET p == heapPop(c.items, c.expiresAt) IN
       sweepLoop(removeItem([c EXCEPT !.items = p.items], p.key), t)

NotFound == "item not found"
Expired == "item expired"
Res(err, val, n) == [err |-> err, val |-> val, n |-> n]
Out(c, res) == [c |-> c, res |-> res]

\* a Set that writes the table from a stale, empty snapshot: earlier entries
\* are lost
SetBodyLost(c, sz, t, key, value, ttl) ==
  IF ttl <= 0 THEN Out(c, Res("ttl must be positive", NilValue, 0))
  ELSE LET exp == t + ttl
           ser == serialize(value)
       IN IF ser.err # "" THEN Out(c, Res(ser.err, NilValue, 0))
          ELSE LET ea == Put(c.expiresAt, key, exp)
                   c1 == [c EXCEPT !.db = Put(<< >>, key, [Value |-> ser.data, ExpiresAt |-> exp]),
                                   !.expiresAt = ea,
                                   !.items = heapPush(c.items, ea, key)]
               IN Out(evictOver(c1, sz), Res("", NilValue, 0))

\* a Set that records the expiry in the map before it encodes the value: a
\* failed encoding leaves the map entry behind
SetBodyTracksFirst(c, sz, t, key, value, ttl) ==
  IF ttl <= 0 THEN Out(c, Res("ttl must be positive", NilValue, 0))
  ELSE LET exp == t + ttl
           ser == serialize(value)
           ea == Put(c.expiresAt, key, exp)
       IN IF ser.err # "" THEN Out([c EXCEPT !.expiresAt = ea], Res(ser.err, NilValue, 0))
          ELSE LET c1 == [c EXCEPT !.db = Put(c.db, key, [Value |-> ser.data, ExpiresAt |-> exp]),
                                   !.expiresAt = ea,
                                   !.items = heapPush(c.items, ea, key)]
               IN Out(evictOver(c1, sz), Res("", NilValue, 0))

\* LRU.Set
SetBody(c, sz, t, key, value, ttl) ==
  IF ttl <= 0 THEN Out(c, Res("ttl must be positive", NilValue, 0))
  ELSE LET exp == t + ttl
           ser == serialize(value)
       IN IF ser.err # "" THEN Out(c, Res(ser.err, NilValue, 0))
          ELSE LET ea == Put(c.expiresAt, key, exp)
                   c1 == [c EXCEPT !.db = Put(c.db, key, [Value |-> ser.data, ExpiresAt |-> exp]),
                                   !.expiresAt = ea,
                                   !.items = heapPush(c.items, ea, key)]
               IN Out(evictOver(c1, sz), Res("", NilValue, 0))

\* a Get that takes an item for expired one tick early: !Before instead of After
GetBodyEarly(c, t, key) ==
  IF key \notin DOMAIN c.db THEN Out(c, Res(NotFound, NilValue, 0))
  ELSE LET item == c.db[key] IN
       IF t >= item.ExpiresAt
       THEN Out(removeItem(c, key), Res(Expired, NilValue, 0))
       ELSE Out(c, Res("", deserialize(item.Value), 0))

\* a Get that marks the key it returns as recently used: it pushes the key on
\* the heap again
GetBodyTouch(c, t, key) ==
  IF key \notin DOMAIN c.db THEN Out(c, Res(NotFound, NilValue, 0))
  ELSE LET item == c.db[key] IN
       IF t > item.ExpiresAt
       THEN Out(removeItem(c, key), Res(Expired, NilValue, 0))
       ELSE Out([c EXCEPT !.items = heapPush(c.items, c.expiresAt, key)],
                Res("", deserialize(item.Value), 0))

\* a Get that reports an expired item with ErrItemNotFound
GetBodyExpiredNotFound(c, t, key) ==
  IF key \notin DOMAIN c.db THEN Out(c, Res(NotFound, NilValue, 0))
  ELSE LET item == c.db[key] IN
       IF t > item.ExpiresAt
       THEN Out(removeItem(c, key), Res(NotFound, NilValue, 0))
       ELSE Out(c, Res("", deserialize(item.Value), 0))

\* LRU.Get
GetBody(c, t, key) ==
  IF key \notin DOMAIN c.db THEN Out(c, Res(NotFound, NilValue, 0))
  ELSE LET item == c.db[key] IN
       IF t > item.ExpiresAt
       THEN Out(removeItem(c, key), Res(Expired, NilValue, 0))
       ELSE Out(c, Res("", deserialize(item.Value), 0))

\* a Delete that aborts its transaction instead of committing it: only the
\* map entry goes
DeleteBodyAborted(c, key) ==
  IF key \notin DOMAIN c.db
  THEN Out(c, Res("failed to delete item: not found", NilValue, 0))
  ELSE Out([c EXCEPT !.expiresAt = Drop(c.expiresAt, key)], Res("", NilValue, 0))

\* LRU.Delete: txn.Delete reports ErrNotFound for an absent key, the
\* transaction is aborted and the error returned.
DeleteBody(c, key) ==
  IF key \notin DOMAIN c.db
  THEN Out(c, Res("failed to delete item: not found", NilValue, 0))
  ELSE Out([c EXCEPT !.db = Drop(c.db, key), !.expiresAt = Drop(c.expiresAt, key)],
           Res("", NilValue, 0))

\* a Clear that leaves the heap array as it is
ClearBodyKeepsItems(c) ==
  Out([c EXCEPT !.db = << >>, !.expiresAt = << >>], Res("", NilValue, 0))

\* LRU.Clear
ClearBody(c) ==
  Out([c EXCEPT !.db = << >>, !.items = << >>, !.expiresAt = << >>],
      Res("", NilValue, 0))

\* LRU.Len
LenBody(c) == Out(c, Res("", NilValue, Cardinality(DOMAIN c.db)))

\* LRU.removeExpiredItems
SweepBody(c, t) == Out(sweepLoop(c, t), Res("", NilValue, 0))

\* ------------------------------------------------- calls, one at a time
\* What is remembered of a completed call: its operation and key, its
\* result, the keys stored before it and the callback invocations it made.
Call(op, key, o) ==
  [op |-> op, key |-> key, res |-> o.res, pre |-> DOMAIN db, hooks |-> o.c.hooks]

NoCall ==
  [op |-> "New", key |-> NoKey, res |-> Res("", NilValue, 0), pre |-> {},
   hooks |-> << >>]

\* run.sets lists the successful Sets made since construction (or since the
\* last Clear, run.cleared) as long as they were Sets of distinct keys and
\* nothing else was called; run.hooks lists the callback invocations they made.
NoRun == [clean |-> TRUE, cleared |-> FALSE, sets |-> << >>, hooks |-> << >>]
Dirty == [clean |-> FALSE, cleared |-> FALSE, sets |-> << >>, hooks |-> << >>]

RunAfter(op, key, value, ttl, o) ==
  IF op = "Clear" /\ o.res.err = "" THEN [NoRun EXCEPT !.cleared = TRUE]
  ELSE IF /\ run.clean
          /\ op = "Set"
          /\ o.res.err = ""
          /\ \A i \in 1..Len(run.sets) : run.sets[i].key # key
       THEN [run EXCEPT !.sets = Append(@, [key |-> key, ttl |-> ttl, exp |-> now + ttl]),
                        !.hooks = @ \o o.c.hooks]
       ELSE Dirty

Commit(op, key, value, ttl, o) ==
  /\ db' = o.c.db
  /\ items' = o.c.items
  /\ expiresAt' = o.c.expiresAt
  /\ last' = Call(op, key, o)
  /\ run' = RunAfter(op, key, value, ttl, o)
  /\ UNCHANGED <<size, now>>
  /\ UNCHANGED concvars

NoCur == [op |-> "", key |-> NoKey, val |-> NilValue, ttl |-> 0, raw |-> NoItem]
NoCache == [db |-> << >>, items |-> << >>, expiresAt |-> << >>, hooks |-> << >>]

\* NewLRUWithTTL(size, opts) with size > 0
New ==
  /\ size \in 1..MaxSize
  /\ db = << >>
  /\ items = << >>
  /\ expiresAt = << >>
  /\ now = 1
  /\ last = NoCall
  /\ run = NoRun
  /\ lock = [w |-> NoProc, r |-> {}]
  /\ cur = [p \in Procs |-> NoCur]
  /\ hist = [p \in Procs |-> << >>]
  /\ crashed = FALSE
  /\ epoch = [n |-> 1, base |-> NoCache, wrote |-> << >>]

Init == New /\ pc = [p \in Procs |-> "off"]

Set(key, value, ttl) == Commit("Set", key, value, ttl, SetBody(Cache, size, now, key, value, ttl))
Get(key) == Commit("Get", key, NilValue, 0, GetBody(Cache, now, key))
Delete(key) == Commit("Delete", key, NilValue, 0, DeleteBody(Cache, key))
Clear == Commit("Clear", NoKey, NilValue, 0, ClearBody(Cache))
LenCall == Commit("Len", NoKey, NilValue, 0, LenBody(Cache))
Sweep == Commit("Sweep", NoKey, NilValue, 0, SweepBody(Cache, now))

\* the clock advances between calls
Tick ==
  /\ now < MaxNow
  /\ now' = now + 1
  /\ UNCHANGED <<db, items, expiresAt, size, last, run>>
  /\ UNCHANGED concvars

Next ==
  \/ \E key \in Keys, value \in Values, ttl \in TTLs : Set(key, value, ttl)
  \/ \E key \in Keys : Get(key)
  \/ \E key \in Keys : Delete(key)
  \/ Clear
  \/ LenCall
  \/ Sweep
  \/ Tick

Spec == Init /\ [][Next]_vars

\* ------------------------------------------------------ concurrent callers
\* The callers work in rounds, as goroutines joined by a WaitGroup: in a
\* round each caller makes at most one call, and the next round starts when
\* all have returned. A call's record keeps its arguments, its result and the
\* callback invocations it made, and the clock value it ran at. epoch.base is the cache at the start of the
\* round; epoch.wrote maps each key to the value written when the first round
\* was a successful Set of a key of its own by every caller.
Idle(p) == pc[p] = "idle" /\ ~crashed /\ hist[p] = << >>

Begin(p, label, op, key, value, ttl) ==
  /\ pc' = [pc EXCEPT ![p] = label]
  /\ cur' = [cur EXCEPT ![p] = [op |-> op, key |-> key, val |-> value, ttl |-> ttl,
                                 raw |-> NoItem]]

\* the call of p returns: its deferred Unlock / RUnlock runs
Return(p, res, hooks) ==
  /\ hist' = [hist EXCEPT ![p] = Append(@,
                 [op |-> cur[p].op, key |-> cur[p].key, val |-> cur[p].val,
                  ttl |-> cur[p].ttl, t |-> now,
                  res |-> res, hooks |-> hooks])]
  /\ pc' = [pc EXCEPT ![p] = "idle"]
  /\ cur' = [cur EXCEPT ![p] = NoCur]
  /\ lock' = [w |-> IF lock.w = p THEN NoProc ELSE lock.w, r |-> lock.r \ {p}]

\* the body of a call that holds the lock exclusively
Exclusive(p, o) ==
  /\ lock.w = p
  /\ db' = o.c.db
  /\ items' = o.c.items
  /\ expiresAt' = o.c.expiresAt
  /\ Return(p, o.res, o.c.hooks)
  /\ UNCHANGED <<size, now, crashed, epoch>>
  /\ UNCHANGED seqvars

\* LRU.Set with ttl <= 0 returns before it takes the lock
SetInvalid(p, key, value, ttl) ==
  /\ Idle(p)
  /\ ttl <= 0
  /\ hist' = [hist EXCEPT ![p] = Append(@,
                 [op |-> "Set", key |-> key, val |-> value, ttl |-> ttl, t |-> now,
                  res |-> Res("ttl must be positive", NilValue, 0), hooks |-> << >>])]
  /\ UNCHANGED <<db, items, expiresAt, size, now, lock, pc, cur, crashed, epoch>>
  /\ UNCHANGED seqvars

\* l.lock.Lock() of Set, Delete, Clear and removeExpiredItems
Lock(p, op, key, value, ttl) ==
  /\ Idle(p)
  /\ op = "Set" => ttl > 0
  /\ lock.w = NoProc /\ lock.r = {}
  /\ lock' = [lock EXCEPT !.w = p]
  /\ Begin(p, op, op, key, value, ttl)
  /\ UNCHANGED <<db, items, expiresAt, size, now, hist, crashed, epoch>>
  /\ UNCHANGED seqvars

\* l.lock.RLock() of Get and Len
RLock(p, op, key) ==
  /\ Idle(p)
  /\ lock.w = NoProc
  /\ lock' = [lock EXCEPT !.r = @ \cup {p}]
  /\ Begin(p, IF op = "Get" THEN "First" ELSE "Count", op, key, NilValue, 0)
  /\ UNCHANGED <<db, items, expiresAt, size, now, hist, crashed, epoch>>
  /\ UNCHANGED seqvars

LockedSet(p) ==
  /\ pc[p] = "Set"
  /\ Exclusive(p, SetBody(Cache, size, now, cur[p].key, cur[p].val, cur[p].ttl))

LockedDelete(p) == pc[p] = "Delete" /\ Exclusive(p, DeleteBody(Cache, cur[p].key))

LockedClear(p) == pc[p] = "Clear" /\ Exclusive(p, ClearBody(Cache))

LockedSweep(p) == pc[p] = "Sweep" /\ Exclusive(p, SweepBody(Cache, now))

\* LRU.Len under the read lock
Count(p) ==
  /\ pc[p] = "Count"
  /\ Return(p, LenBody(Cache).res, << >>)
  /\ UNCHANGED <<db, items, expiresAt, size, now, crashed, epoch>>
  /\ UNCHANGED seqvars

\* LRU.Get under the read lock: txn.First
First(p) ==
  /\ pc[p] = "First"
  /\ IF cur[p].key \notin DOMAIN db
     THEN Return(p, Res(NotFound, NilValue, 0), << >>)
     ELSE /\ cur' = [cur EXCEPT ![p].raw = db[cur[p].key]]
          /\ pc' = [pc EXCEPT ![p] = "After"]
          /\ UNCHANGED <<lock, hist>>
  /\ UNCHANGED <<db, items, expiresAt, size, now, crashed, epoch>>
  /\ UNCHANGED seqvars

\* LRU.Get under the read lock: time.Now().After(item.ExpiresAt)
After(p) ==
  /\ pc[p] = "After"
  /\ IF now > cur[p].raw.ExpiresAt
     THEN /\ pc' = [pc EXCEPT ![p] = "removeItem"]
          /\ UNCHANGED <<lock, cur, hist>>
     ELSE Return(p, Res("", deserialize(cur[p].raw.Value), 0), << >>)
  /\ UNCHANGED <<db, items, expiresAt, size, now, crashed, epoch>>
  /\ UNCHANGED seqvars

\* removeItem called by Get, under the read lock: txn.Delete. memdb runs one
\* write transaction at a time; on an absent key removeItem returns and Get
\* returns ErrItemExpired.
RemoveTxn(p) ==
  /\ pc[p] = "removeItem"
  /\ IF cur[p].key \notin DOMAIN db
     THEN /\ Return(p, Res(Expired, NilValue, 0), << >>)
          /\ UNCHANGED db
     ELSE /\ db' = Drop(db, cur[p].key)
          /\ pc' = [pc EXCEPT ![p] = "delete"]
          /\ UNCHANGED <<lock, cur, hist>>
  /\ UNCHANGED <<items, expiresAt, size, now, crashed, epoch>>
  /\ UNCHANGED seqvars

\* removeItem called by Get, under the read lock: delete(expiresAt, key) and
\* the callback. Two readers at this point write the map at once, a data
\* race: the delete takes effect, or is lost, or the runtime stops the
\* program with "concurrent map writes".
RemoveMap(p) ==
  /\ pc[p] = "delete"
  /\ LET racing == \E q \in Procs \ {p} : pc[q] = "delete" IN
     \/ /\ expiresAt' = Drop(expiresAt, cur[p].key)
        /\ Return(p, Res(Expired, NilValue, 0), <<[key |-> cur[p].key, value |-> NilValue]>>)
        /\ UNCHANGED crashed
     \/ /\ racing
        /\ UNCHANGED expiresAt
        /\ Return(p, Res(Expired, NilValue, 0), <<[key |-> cur[p].key, value |-> NilValue]>>)
        /\ UNCHANGED crashed
     \/ /\ racing
        /\ crashed' = TRUE
        /\ UNCHANGED <<expiresAt, lock, pc, cur, hist>>
  /\ UNCHANGED <<db, items, size, now, epoch>>
  /\ UNCHANGED seqvars

\* wg.Wait() returns: the next round starts
Wait ==
  /\ ~crashed
  /\ epoch.n < MaxRounds
  /\ \A p \in Procs : pc[p] = "idle" /\ hist[p] # << >>
  /\ epoch' = [n |-> epoch.n + 1, base |-> Cache,
               wrote |-> IF /\ epoch.n = 1
                            /\ \A p \in Procs : hist[p][1].op = "Set" /\ hist[p][1].res.err = ""
                            /\ \A p, q \in Procs : p # q => hist[p][1].key # hist[q][1].key
                         THEN [k \in {hist[p][1].key : p \in Procs} |->
                                 hist[CHOOSE p \in Procs : hist[p][1].key = k][1].val]
                         ELSE << >>]
  /\ hist' = [p \in Procs |-> << >>]
  /\ UNCHANGED <<db, items, expiresAt, size, now, lock, pc, cur, crashed>>
  /\ UNCHANGED seqvars

\* the clock advances between calls
ConcTick ==
  /\ ~crashed
  /\ \A p \in Procs : pc[p] = "idle"
  /\ now < MaxNow
  /\ now' = now + 1
  /\ UNCHANGED <<db, items, expiresAt, size>>
  /\ UNCHANGED seqvars
  /\ UNCHANGED concvars

\* every caller has a key (any caller may use any of them) and a value of its
\* own, and asks for a ttl of one tick or for none
ConcKeys == 1..NumProcs
ValueOf(p) == IF p % 2 = 1 THEN [t |-> "string", s |-> "value1"] ELSE [t |-> "string", s |-> "42"]
ConcTTLs == {0, 1}

ConcInit == New /\ pc = [p \in Procs |-> "idle"]

ConcNext ==
  \/ \E p \in Procs, key \in ConcKeys, ttl \in ConcTTLs : SetInvalid(p, key, ValueOf(p), ttl)
  \/ \E p \in Procs, key \in ConcKeys, ttl \in ConcTTLs : Lock(p, "Set", key, ValueOf(p), ttl)
  \/ \E p \in Procs, key \in ConcKeys : Lock(p, "Delete", key, NilValue, 0)
  \/ \E p \in Procs : Lock(p, "Clear", NoKey, NilValue, 0)
  \/ \E p \in Procs : Lock(p, "Sweep", NoKey, NilValue, 0)
  \/ \E p \in Procs, key \in ConcKeys : RLock(p, "Get", key)
  \/ \E p \in Procs : RLock(p, "Len", NoKey)
  \/ \E p \in Procs : LockedSet(p)
  \/ \E p \in Procs : LockedDelete(p)
  \/ \E p \in Procs : LockedClear(p)
  \/ \E p \in Procs : LockedSweep(p)
  \/ \E p \in Procs : Count(p)
  \/ \E p \in Procs : First(p)
  \/ \E p \in Procs : After(p)
  \/ \E p \in Procs : RemoveTxn(p)
  \/ \E p \in Procs : RemoveMap(p)
  \/ Wait
  \/ ConcTick

SpecConc == ConcInit /\ [][ConcNext]_vars

\* ------------------------------------------------------------------ claims
Stored(c) == [c EXCEPT !.hooks = << >>]
SetsOf(r) == {r.sets[i].key : i \in 1..Len(r.sets)}
NoneElapsed(r) == \A i \in 1..Len(r.sets) : now <= r.sets[i].exp

\* C1: after any completed call the item store holds at most size entries,
\* and that is what Len() returns.
CapacityBound == LenBody(Cache).res.n <= size /\ Cardinality(DOMAIN db) <= size

\* C1 witness: a Set has just evicted for capacity and the store is full.
CapacityBoundWitness ==
  /\ last.op = "Set"
  /\ last.hooks # << >>
  /\ Cardinality(last.pre) = size
  /\ LenBody(Cache).res.n = size

\* C2 (as claimed): whenever Set(key, value, ttl) with ttl > 0 succeeds and
\* the store holds at most size distinct keys once key is written, a Get(key)
\* made next, at any time up to the expiry, succeeds and returns the value set
\* (read up to the codec's type recovery: the same printed form).
SetThenGet ==
  [][\A key \in Keys, value \in Values, ttl \in 1..MaxTTL :
       (/\ Set(key, value, ttl)
        /\ last'.res.err = ""
        /\ Cardinality(DOMAIN db \cup {key}) <= size) =>
         \A t \in now..(now + ttl) :
           LET g == GetBody(Cache', t, key) IN
           g.res.err = "" /\ g.res.val.s = value.s]_vars

\* C3: on a new cache, after size+1 successful Sets of distinct keys and
\* nothing else, with no TTL elapsed: Len() is size, exactly size of the keys
\* are retrievable, the missing key has the earliest expiry of them (it is the
\* first key set when all TTLs are equal), Get on it fails with NotFound, and
\* the callback was invoked exactly once, for that key.
OneOverCapacity ==
  (run.clean /\ ~run.cleared /\ Len(run.sets) = size + 1 /\ NoneElapsed(run)) =>
    /\ LenBody(Cache).res.n = size
    /\ Cardinality({k \in SetsOf(run) : GetBody(Cache, now, k).res.err = ""}) = size
    /\ \E i \in 1..Len(run.sets) :
         /\ SetsOf(run) \ DOMAIN db = {run.sets[i].key}
         /\ \A j \in 1..Len(run.sets) : run.sets[i].exp <= run.sets[j].exp
         /\ (\A j \in 1..Len(run.sets) : run.sets[j].ttl = run.sets[1].ttl) => i = 1
         /\ GetBody(Cache, now, run.sets[i].key).res.err = NotFound
         /\ run.hooks = <<[key |-> run.sets[i].key, value |-> NilValue]>>

\* C3 witness: size+1 distinct keys were set on a new cache of capacity 2,
\* with different expiries, and the second key set is the one that went.
OneOverCapacityWitness ==
  /\ run.clean /\ ~run.cleared /\ Len(run.sets) = size + 1 /\ NoneElapsed(run)
  /\ size = 2
  /\ run.sets[2].key \notin DOMAIN db
  /\ run.sets[2].exp < run.sets[1].exp

\* C4: Get on a stored key whose expiry has passed (now > ExpiresAt) fails
\* with Expired, returns no value and removes the item, so that the next Get
\* of the key fails with NotFound; Get on a stored key whose expiry has not
\* passed does not fail with Expired.
LazyExpiration ==
  \A key \in DOMAIN db :
    LET g == GetBody(Cache, now, key) IN
    /\ now > db[key].ExpiresAt =>
         /\ g.res.err = Expired
         /\ g.res.val = NilValue
         /\ key \notin DOMAIN g.c.db
         /\ \A t \in now..MaxNow : GetBody(Stored(g.c), t, key).res.err = NotFound
    /\ now <= db[key].ExpiresAt => g.res.err # Expired

\* C4 witness: a Get has just failed with Expired on a stored key, the key is
\* gone and a Get now fails with NotFound.
LazyExpirationWitness ==
  /\ last.op = "Get"
  /\ last.key \in last.pre
  /\ last.res.err = Expired
  /\ last.key \notin DOMAIN db
  /\ GetBody(Cache, now, last.key).res.err = NotFound

\* C5: Delete of a stored key, expired or not, succeeds; a Get of the key
\* made next fails with NotFound and Len() is one less than before.
DeleteThenGet ==
  \A key \in DOMAIN db :
    LET d == DeleteBody(Cache, key) IN
    /\ d.res.err = ""
    /\ \A t \in now..MaxNow : GetBody(Stored(d.c), t, key).res.err = NotFound
    /\ LenBody(d.c).res.n = LenBody(Cache).res.n - 1

\* C5 witness: a stored key has just been deleted, at the last clock value,
\* and Get of it now fails with NotFound.
DeleteThenGetWitness ==
  /\ last.op = "Delete"
  /\ last.key \in last.pre
  /\ last.res.err = ""
  /\ last.key \notin DOMAIN db
  /\ Cardinality(DOMAIN db) = Cardinality(last.pre) - 1
  /\ now = MaxNow
  /\ GetBody(Cache, now, last.key).res.err = NotFound

\* C6 (as claimed): Delete of a key that is not stored returns success and
\* leaves the item store and the expiry index as they were.
DeleteAbsent ==
  /\ (last.op = "Delete" /\ last.key \notin last.pre) =>
       (last.res.err = "" /\ DOMAIN db = last.pre)
  /\ \A key \in Keys \ DOMAIN db : DeleteBody(Cache, key).c = Cache

\* C7: after Clear, Len() is 0, Get of every key fails with NotFound, the
\* expiry index holds no key, and Sets of up to size distinct keys made from
\* there leave every one of them retrievable.
ClearResets ==
  /\ LET c == ClearBody(Cache) IN
       /\ c.res.err = ""
       /\ LenBody(c.c).res.n = 0
       /\ \A key \in Keys, t \in now..MaxNow : GetBody(Stored(c.c), t, key).res.err = NotFound
       /\ c.c.items = << >> /\ DOMAIN c.c.expiresAt = {}
  /\ last.op = "Clear" => (DOMAIN db = {} /\ items = << >> /\ DOMAIN expiresAt = {})
  /\ (run.cleared /\ run.clean /\ Len(run.sets) <= size /\ NoneElapsed(run)) =>
       \A k \in SetsOf(run) : GetBody(Cache, now, k).res.err = ""

\* C7 witness: the cache was cleared and size = 2 distinct keys, set since,
\* are all retrievable.
ClearResetsWitness ==
  /\ run.cleared /\ run.clean /\ Len(run.sets) = size /\ NoneElapsed(run)
  /\ size = 2
  /\ last.op = "Set"
  /\ \A k \in SetsOf(run) : GetBody(Cache, now, k).res.err = ""

\* ----------------------------------------------------- concurrency claims
AllIdle == \A p \in Procs : pc[p] = "idle"
RoundOver == AllIdle /\ \A p \in Procs : hist[p] # << >>
Reads == {"Get", "Len"}

\* the first round was a Set, with ttl > 0, of a key of its own by every caller
SetsOnly ==
  /\ \A p \in Procs : hist[p][1].op = "Set" /\ hist[p][1].ttl > 0
  /\ \A p, q \in Procs : p # q => hist[p][1].key # hist[q][1].key

\* the second round, so far, is made of Gets and Lens that follow such a
\* first round, and no TTL has elapsed
GetsOnly ==
  /\ epoch.n = 2
  /\ DOMAIN epoch.wrote # {}
  /\ \A p \in Procs : pc[p] # "idle" => cur[p].op \in Reads
  /\ \A p \in Procs : hist[p] # << >> => hist[p][1].op \in Reads
  /\ \A k \in DOMAIN epoch.base.db : now <= epoch.base.db[k].ExpiresAt

Replay(c, h) ==
  CASE h.op = "Set" -> SetBody(c, size, h.t, h.key, h.val, h.ttl)
    [] h.op = "Get" -> GetBody(c, h.t, h.key)
    [] h.op = "Delete" -> DeleteBody(c, h.key)
    [] h.op = "Clear" -> ClearBody(c)
    [] h.op = "Len" -> LenBody(c)
    [] h.op = "Sweep" -> SweepBody(c, h.t)

\* some order of the calls in h, made one at a time from cache c, gives every
\* call its result and its callback invocations
RECURSIVE Sequential(_, _)
Sequential(c, h) ==
  \/ \A p \in Procs : h[p] = << >>
  \/ \E p \in Procs :
       /\ h[p] # << >>
       /\ LET o == Replay(Stored(c), Head(h[p])) IN
          /\ o.res = Head(h[p]).res
          /\ o.c.hooks = Head(h[p]).hooks
          /\ Sequential(o.c, [h EXCEPT ![p] = Tail(@)])

\* C9 (as claimed): the results and callback invocations of the concurrent
\* calls of a round are those of the same calls made one at a time in some
\* order, and the program is not stopped.
Linearizable == ~crashed /\ (AllIdle => Sequential(epoch.base, hist))

\* C10 (as claimed): the item store, the heap array and the expiresAt map
\* change only in a step of a caller that holds the lock exclusively, with no
\* reader inside.
LockDiscipline ==
  [][cache' # cache => (lock.w \in Procs /\ lock.r = {})]_vars

\* ------------------------- failed calls, callbacks, index, sweep, reads
\* C11: a Set with ttl <= 0 returns an error, and so does a Set of a value
\* that cannot be encoded (a channel); a Set that returns an error leaves the
\* item store, the heap array, the expiresAt map and Len() as they were and
\* invokes no callback.
FailedSetNoEffect ==
  /\ \A key \in Keys, value \in Values, ttl \in TTLs :
       LET o == SetBody(Cache, size, now, key, value, ttl) IN
       /\ ttl <= 0 => o.res.err # ""
       /\ value.t = "chan" => o.res.err # ""
       /\ o.res.err # "" =>
            /\ o.c = Cache
            /\ LenBody(o.c).res.n = LenBody(Cache).res.n
  /\ (last.op = "Set" /\ last.res.err # "") =>
       (last.hooks = << >> /\ DOMAIN db = last.pre)

\* C11 witness: a Set of a value that cannot be encoded has just failed on a
\* cache that is full, and the store is as it was.
FailedSetNoEffectWitness ==
  /\ last.op = "Set"
  /\ last.res.err = "failed to serialize value"
  /\ last.pre = DOMAIN db
  /\ Cardinality(DOMAIN db) = size
  /\ Len(items) = size

\* the keys the callback was invoked for by the last call, and the keys that
\* were in the store during the last call: those stored before it and the key
\* a successful Set wrote
HookKeys == {last.hooks[i].key : i \in 1..Len(last.hooks)}
Entered ==
  last.pre \cup (IF last.op = "Set" /\ last.res.err = "" THEN {last.key} ELSE {})

\* C12: a Get, a sweep or a Set invokes the callback exactly once for every
\* key it removed from the store and for no other key; no call invokes the
\* callback for a key that was not in the store, and Delete, Clear and Len
\* invoke none.
HookAccounting ==
  /\ last.op \in {"Get", "Sweep", "Set"} =>
       /\ HookKeys = Entered \ DOMAIN db
       /\ Len(last.hooks) = Cardinality(Entered \ DOMAIN db)
  /\ HookKeys \subseteq Entered
  /\ last.op \in {"New", "Delete", "Clear", "Len"} => last.hooks = << >>

\* C12 witness: on a cache of capacity 2 that has seen other calls than Sets
\* of distinct keys, a sweep has removed the one stored item and invoked the
\* callback once, for its key.
HookAccountingWitness ==
  /\ last.op = "Sweep"
  /\ Len(last.hooks) = 1
  /\ Cardinality(last.pre) = 1
  /\ size = 2
  /\ DOMAIN db = {}
  /\ items = << >>
  /\ run = Dirty

\* C13 (as claimed): a Delete of a stored key invokes the callback for that
\* key and passes it the value that was stored.
DeleteInvokesHook ==
  [][\A key \in DOMAIN db :
       Delete(key) =>
         \E i \in 1..Len(last'.hooks) :
           /\ last'.hooks[i].key = key
           /\ last'.hooks[i].value = deserialize(db[key].Value)]_vars

\* C14: Get(key) fails with NotFound exactly when key is not stored when it
\* is called; it then leaves the item store, the heap array and the expiresAt
\* map as they were and invokes no callback.
GetNotFound ==
  /\ \A key \in Keys :
       LET g == GetBody(Cache, now, key) IN
       /\ (g.res.err = NotFound) <=> (key \notin DOMAIN db)
       /\ key \notin DOMAIN db => g.c = Cache
  /\ last.op = "Get" =>
       /\ (last.res.err = NotFound) <=> (last.key \notin last.pre)
       /\ last.res.err = NotFound => (last.hooks = << >> /\ DOMAIN db = last.pre)

\* C14 witness: a Get has just failed with NotFound on a key that is not
\* stored but still has an entry in the heap array, while other keys are
\* stored.
GetNotFoundWitness ==
  /\ last.op = "Get"
  /\ last.res.err = NotFound
  /\ last.key \notin DOMAIN db
  /\ \E i \in 1..Len(items) : items[i] = last.key
  /\ DOMAIN db # {}

\* C15 (as claimed): between calls, every stored key has exactly one entry in
\* the heap array and its expiresAt map entry equals the item's ExpiresAt, and
\* neither the heap array nor the map holds a key that is not stored.
IndexConsistent ==
  /\ \A k \in DOMAIN db :
       /\ Cardinality({i \in 1..Len(items) : items[i] = k}) = 1
       /\ k \in DOMAIN expiresAt
       /\ expiresAt[k] = db[k].ExpiresAt
  /\ \A i \in 1..Len(items) : items[i] \in DOMAIN db
  /\ DOMAIN expiresAt \subseteq DOMAIN db

\* C16 (as claimed): a successful Set removes an entry from the store only
\* if the store holds more than size entries once the item is written;
\* otherwise it removes nothing and invokes no callback. After it, Len() is
\* the lesser of size and the number of distinct keys among those stored
\* before and the key set.
SetEvictsOnlyOverCapacity ==
  [][\A key \in Keys, value \in Values, ttl \in 1..MaxTTL :
       (Set(key, value, ttl) /\ last'.res.err = "") =>
         LET n == Cardinality(DOMAIN db \cup {key}) IN
         /\ n <= size => (last'.hooks = << >> /\ DOMAIN db' = DOMAIN db \cup {key})
         /\ LenBody(Cache').res.n = IF n <= size THEN n ELSE size]_vars

\* the item store once Set has written key with expiry exp, before it evicts
Written(key, exp) == Put([k \in DOMAIN db |-> db[k].ExpiresAt], key, exp)

\* C17 (as claimed): a key that a Set evicts for capacity has, when it is
\* removed, an expiresAt no later than that of every other key in the store.
VictimIsEarliest ==
  [][\A key \in Keys, value \in Values, ttl \in 1..MaxTTL :
       (Set(key, value, ttl) /\ last'.res.err = "") =>
         \A i \in 1..Len(last'.hooks) :
           LET victim == last'.hooks[i].key
               w == Written(key, now + ttl)
           IN \A k \in DOMAIN w : w[victim] <= w[k]]_vars

\* C18 (as claimed): when a pass of the sweep finishes, no stored item has an
\* ExpiresAt before the pass's clock value, and the callback was invoked for
\* every item the pass removed.
SweepComplete ==
  [][Sweep =>
       /\ \A k \in DOMAIN db' : ~(db'[k].ExpiresAt < now)
       /\ {last'.hooks[i].key : i \in 1..Len(last'.hooks)} = DOMAIN db \ DOMAIN db']_vars

\* C19: a pass of the sweep removes from the store only items whose
\* ExpiresAt is strictly before the pass's clock value, adds none, and leaves
\* the value and the ExpiresAt of every item it does not remove as they were.
SweepSafe ==
  [][Sweep =>
       /\ DOMAIN db' \subseteq DOMAIN db
       /\ \A k \in DOMAIN db :
            /\ k \notin DOMAIN db' => db[k].ExpiresAt < now
            /\ k \in DOMAIN db' => db'[k] = db[k]]_vars

\* C19 witness: a sweep has just removed an item and left in place an item
\* that expires at the very clock value of the pass.
SweepSafeWitness ==
  /\ last.op = "Sweep"
  /\ last.hooks # << >>
  /\ DOMAIN db # {}
  /\ DOMAIN db \subseteq last.pre
  /\ \E k \in DOMAIN db : db[k].ExpiresAt = now

\* the keys a call's callback invocations name, in order
Evicted(o) == [i \in 1..Len(o.c.hooks) |-> o.c.hooks[i].key]

=============================================================================
